---- MODULE Spec2Model ----
(***************************************************************************)
(* Model of the data-quality job runner: YAML job/asset/suite resolution   *)
(* (utils/selector.py, utils/job_selector_factory.py), validation assembly *)
(* (main.py build_validations / build_suite) and the entry point           *)
(* (main.py __main__).                                                     *)
(*                                                                         *)
(* Python strings that the code splits are sequences of one-character      *)
(* strings; strings the code only compares are TLA+ strings.  A Python     *)
(* call either returns or raises: its model returns a record               *)
(* [exc, val, opened] with exc = "none" on return, and opened the list of  *)
(* paths it passed to open(), in order.                                    *)
(***************************************************************************)
EXTENDS Integers, Sequences, FiniteSets, TLC

VARIABLES
    resources,          \* files under <project_path>/resources
    args,               \* parsed command line: job_name, job_tags
    pc,                 \* position of the entry point
    err,                \* the exception the entry point raised ("none" if none)
    jobs,               \* result of JobSelectorFactory.select_job
    validations,        \* result of build_validations
    data_source,        \* external catalog: assets of the data source
    context,            \* external catalog: suites and checkpoints
    checkpoint_result,  \* result of run_checkpoint of this invocation
    invocation,         \* number of the current process invocation
    started,            \* catalog as it was when this invocation started
    history,            \* outcome of the finished invocations
    call,               \* library call made directly (selection functions)
    ret                 \* what that call returned or raised

vars == <<resources, args, pc, err, jobs, validations, data_source, context,
          checkpoint_result, invocation, started, history, call, ret>>

\* ------------------------------------------------------------------ bounds
MaxNameLen == 3
MaxTagStrLen == 3
MaxTags == 2
MaxEntries == 2
MaxInvocations == 2

\* ------------------------------------------------------------- Python values
None == <<>>
Some(v) == <<v>>
IsNone(o) == Len(o) = 0
Value(o) == o[1]

Ok(v, opened) == [exc |-> "none", val |-> v, opened |-> opened]
Raise(e, opened) == [exc |-> e, val |-> None, opened |-> opened]

Strings(alphabet, n) == UNION {[1..k -> alphabet] : k \in 0..n}

Min(S) == CHOOSE x \in S : \A y \in S : x <= y

\* str.split(sep) for a one-character separator
RECURSIVE split(_, _)
split(s, sep) ==
    LET at == {i \in 1..Len(s) : s[i] = sep} IN
    IF at = {} THEN <<s>>
    ELSE <<SubSeq(s, 1, Min(at) - 1)>>
         \o split(SubSeq(s, Min(at) + 1, Len(s)), sep)

\* os.path.join(project_path, "resources/...", ...): empty components vanish
AssetPath(tbl_name) == <<"resources/data_assets/">> \o tbl_name \o <<".yml">>
SuitePath(suite_name) == <<"resources/suites/", suite_name, ".yml">>
JobPath(sub_folder, file) ==
    <<"resources/jobs/">>
    \o (IF sub_folder = <<>> THEN <<>> ELSE sub_folder \o <<"/">>)
    \o file

\* ---------------------------------------------------------- utils/selector.py
select_asset_leaf(fname) ==
    LET parts == split(fname, ".") IN
    IF Len(parts) # 2 THEN Raise("ValueError: values to unpack", <<>>)
    ELSE
        LET tbl_name == parts[1]
            asset_name == parts[2]
            path == AssetPath(tbl_name)
        IN
        IF tbl_name \notin DOMAIN resources.data_assets
        THEN Raise("FileNotFoundError", <<path>>)
        ELSE
            LET assets == resources.data_assets[tbl_name]
                hits == {i \in 1..Len(assets) : assets[i].name = asset_name}
            IN
            IF hits = {} THEN Raise("Exception: Asset is not found", <<path>>)
            ELSE Ok([name |-> asset_name, query |-> assets[Min(hits)].query],
                    <<path>>)

select_asset_first_dot(fname) ==
    LET at == {i \in 1..Len(fname) : fname[i] = "."} IN
    IF at = {} THEN Raise("ValueError: values to unpack", <<>>)
    ELSE
        LET tbl_name == SubSeq(fname, 1, Min(at) - 1)
            asset_name == SubSeq(fname, Min(at) + 1, Len(fname))
            path == AssetPath(tbl_name)
        IN
        IF tbl_name \notin DOMAIN resources.data_assets
        THEN Raise("FileNotFoundError", <<path>>)
        ELSE
            LET assets == resources.data_assets[tbl_name]
                hits == {i \in 1..Len(assets) : assets[i].name = asset_name}
            IN
            IF hits = {} THEN Raise("Exception: Asset is not found", <<path>>)
            ELSE Ok([name |-> fname, query |-> assets[Min(hits)].query],
                    <<path>>)

select_asset(fname) ==
    LET parts == split(fname, ".") IN
    IF Len(parts) # 2 THEN Raise("ValueError: values to unpack", <<>>)
    ELSE
        LET tbl_name == parts[1]
            asset_name == parts[2]
            path == AssetPath(tbl_name)
        IN
        IF tbl_name \notin DOMAIN resources.data_assets
        THEN Raise("FileNotFoundError", <<path>>)
        ELSE
            LET assets == resources.data_assets[tbl_name]
                hits == {i \in 1..Len(assets) : assets[i].name = asset_name}
            IN
            IF hits = {} THEN Raise("Exception: Asset is not found", <<path>>)
            ELSE Ok([name |-> fname, query |-> assets[Min(hits)].query],
                    <<path>>)

select_suite(suite_name) ==
    LET path == SuitePath(suite_name) IN
    IF suite_name \notin DOMAIN resources.suites
    THEN Raise("FileNotFoundError", <<path>>)
    ELSE
        LET suite_data == resources.suites[suite_name] IN
        Ok([name |-> suite_data.name, expectations |-> suite_data.expectations],
           <<path>>)

\* ------------------------------------------------- utils/job_selector_factory.py
\* a Job and a list are told apart by isinstance
PyJob(job) == [type |-> "Job", v |-> job]
PyList(list) == [type |-> "list", v |-> list]
PyStr(s) == [type |-> "str", v |-> s]
PyInt(n) == [type |-> "int", v |-> n]

Prefixed(opened, r) == [r EXCEPT !.opened = opened \o @]

append_skipping_failures(acc, r) ==
    IF r.exc # "none" THEN Ok(acc.val, acc.opened \o r.opened)
    ELSE Ok(Append(acc.val, r.val), acc.opened \o r.opened)

\* list.append(<call>): the call's exception leaves the loop and the function
append(acc, r) ==
    IF r.exc # "none" THEN Raise(r.exc, acc.opened \o r.opened)
    ELSE Ok(Append(acc.val, r.val), acc.opened \o r.opened)

\* inner loop of handle_job_data: the data assets of one run, in file order
RECURSIVE run_data_assets(_, _)
run_data_assets(names, acc) ==
    IF names = <<>> \/ acc.exc # "none" THEN acc
    ELSE run_data_assets(Tail(names), append(acc, select_asset(Head(names))))

\* Run(data_assets=data_assets, suite=suite)
Run(a, s) ==
    IF s.exc # "none" THEN Raise(s.exc, a.opened \o s.opened)
    ELSE Ok([data_assets |-> a.val, suite |-> s.val], a.opened \o s.opened)

\* suite = select_suite(run["suite"]), once the data assets are resolved
run_suite(a, suite_name) ==
    IF a.exc # "none" THEN a ELSE Run(a, select_suite(suite_name))

\* body of the outer loop of handle_job_data
handle_run(run) ==
    run_suite(run_data_assets(run.data_assets, Ok(<<>>, <<>>)), run.suite)

\* outer loop of handle_job_data: the runs of the job, in file order
RECURSIVE job_runs(_, _)
job_runs(runs, acc) ==
    IF runs = <<>> \/ acc.exc # "none" THEN acc
    ELSE job_runs(Tail(runs), append(acc, handle_run(Head(runs))))

\* Job(name=..., runs=runs, tags=job_data.get("tags"))
Job(d, r) ==
    IF r.exc # "none" THEN r
    ELSE Ok([name |-> d.name, runs |-> r.val, tags |-> d.tags], r.opened)

handle_job_data(job_data) ==
    IF IsNone(job_data) THEN Raise("AttributeError: NoneType.get", <<>>)
    ELSE Job(Value(job_data), job_runs(Value(job_data).runs, Ok(<<>>, <<>>)))

\* return job
return_job(h) == IF h.exc # "none" THEN h ELSE Ok(PyJob(h.val), h.opened)

\* yaml.safe_load(open(path)) and what follows it
load_job(path) ==
    IF path \notin DOMAIN resources.jobs
    THEN Raise("FileNotFoundError", <<path>>)
    ELSE IF IsNone(resources.jobs[path])
    THEN Raise("ValueError: No job found for filename", <<path>>)
    ELSE Prefixed(<<path>>, return_job(handle_job_data(resources.jobs[path])))

_select_job_by_filename(fname) ==
    LET parts == split(fname, ".") IN
    IF Len(parts) # 2 THEN Raise("ValueError: values to unpack", <<>>)
    ELSE load_job(JobPath(parts[1], parts[2] \o <<".yml">>))

tags_any(tags, job) ==
    IF tags = <<>> THEN Ok(FALSE, <<>>)
    ELSE IF IsNone(job.tags)
    THEN Raise("TypeError: NoneType is not iterable", <<>>)
    ELSE Ok(\E i \in 1..Len(tags) :
                \E k \in 1..Len(Value(job.tags)) : Value(job.tags)[k] = tags[i],
            <<>>)

\* all(tag in job.tags for tag in tags): "in" on None raises TypeError
tags_all(tags, job) ==
    IF tags = <<>> THEN Ok(TRUE, <<>>)
    ELSE IF IsNone(job.tags)
    THEN Raise("TypeError: NoneType is not iterable", <<>>)
    ELSE Ok(\A i \in 1..Len(tags) :
                \E k \in 1..Len(Value(job.tags)) : Value(job.tags)[k] = tags[i],
            <<>>)

\* if all(...): jobs.append(job)
append_if(acc, h, m) ==
    IF m.exc # "none" THEN Raise(m.exc, acc.opened \o h.opened)
    ELSE Ok(IF m.val THEN Append(acc.val, h.val) ELSE acc.val,
            acc.opened \o h.opened)

\* body of the os.walk loop for one .yml file
walk_job(tags, acc, h) ==
    IF h.exc # "none" THEN Raise(h.exc, acc.opened \o h.opened)
    ELSE append_if(acc, h, tags_all(tags, h.val))

\* the os.walk loop of _select_jobs_by_tags over the listing `walk`
RECURSIVE walk_jobs(_, _, _)
walk_jobs(tags, walk, acc) ==
    IF walk = <<>> \/ acc.exc # "none" THEN acc
    ELSE walk_jobs(
             tags, Tail(walk),
             IF Head(walk)[Len(Head(walk))] # ".yml" THEN acc
             ELSE walk_job(tags, acc,
                           Prefixed(<<Head(walk)>>,
                                    handle_job_data(resources.jobs[Head(walk)]))))

\* if len(jobs) == 0: raise ...; return jobs
return_jobs(r) ==
    IF r.exc # "none" THEN r
    ELSE IF Len(r.val) = 0
    THEN Raise("ValueError: No job found for tags", r.opened)
    ELSE Ok(PyList(r.val), r.opened)

_select_jobs_by_tags(tags, walk) ==
    return_jobs(walk_jobs(tags, walk, Ok(<<>>, <<>>)))

select_job(fname_or_tags, walk) ==
    IF fname_or_tags.type = "str"
    THEN _select_job_by_filename(fname_or_tags.v)
    ELSE IF fname_or_tags.type = "list"
    THEN _select_jobs_by_tags(fname_or_tags.v, walk)
    ELSE Raise("ValueError: Invalid argument type", <<>>)

\* os.walk(resources/jobs), top-down: the root's files first, then each
\* sub-folder's files together; the order within a directory is the
\* file system's
DirOf(path) ==
    LET at == {i \in 1..Len(path) : path[i] = "/"} IN
    IF at = {} THEN <<>> ELSE SubSeq(path, 2, Min(at) - 1)

RECURSIVE Perms(_)
Perms(S) ==
    IF S = {} THEN {<<>>}
    ELSE UNION {{<<x>> \o p : p \in Perms(S \ {x})} : x \in S}

FilesIn(dir) == {p \in DOMAIN resources.jobs : DirOf(p) = dir}

RECURSIVE walk_dirs(_)
walk_dirs(dirs) ==
    IF dirs = {} THEN {<<>>}
    ELSE UNION {{files \o rest : files \in Perms(FilesIn(d)),
                                 rest \in walk_dirs(dirs \ {d})} : d \in dirs}

os_walk ==
    {top \o rest :
        top \in Perms(FilesIn(<<>>)),
        rest \in walk_dirs({DirOf(p) : p \in DOMAIN resources.jobs} \ {<<>>})}

\* ------------------------------------------------------------------- main.py
\* data_source.get_asset(name): the asset of that name, LookupError if none
get_asset(ds, name) ==
    LET hits == {i \in 1..Len(ds.assets) : ds.assets[i].name = name} IN
    IF hits = {} THEN [exc |-> "LookupError", val |-> None, data_source |-> ds]
    ELSE [exc |-> "none", val |-> ds.assets[Min(hits)], data_source |-> ds]

\* data_source.add_query_asset(name, query): asset names are unique in a
\* data source, a second asset of the same name is refused
add_query_asset(ds, name, query) ==
    IF \E i \in 1..Len(ds.assets) : ds.assets[i].name = name
    THEN [exc |-> "ValueError: asset already exists", val |-> None,
          data_source |-> ds]
    ELSE LET asset == [name |-> name, query |-> query] IN
         [exc |-> "none", val |-> asset,
          data_source |-> [ds EXCEPT !.assets = Append(@, asset)]]

data_asset_always_add(ds, data_asset_config) ==
    add_query_asset(ds, data_asset_config.name, data_asset_config.query)

data_asset_upsert(ds, data_asset_config) ==
    LET hits == {i \in 1..Len(ds.assets) :
                     ds.assets[i].name = data_asset_config.name}
    IN
    IF hits = {}
    THEN add_query_asset(ds, data_asset_config.name, data_asset_config.query)
    ELSE LET asset == [name |-> data_asset_config.name,
                       query |-> data_asset_config.query]
         IN [exc |-> "none", val |-> asset,
             data_source |-> [ds EXCEPT !.assets[Min(hits)] = asset]]

\* try: get_asset(name)  except: add_query_asset(name, query)
data_asset(ds, data_asset_config) ==
    LET g == get_asset(ds, data_asset_config.name) IN
    IF g.exc = "none" THEN g
    ELSE add_query_asset(ds, data_asset_config.name, data_asset_config.query)

\* data_asset.build_batch_request(): the batch is the handle's query
build_batch_request(asset) ==
    [datasource_name |-> "staging_postgres",
     data_asset_name |-> asset.name,
     query |-> asset.query]

\* context.add_or_update_expectation_suite(name): a fresh, empty suite under
\* that name, in the place of the suite of that name if there is one
add_or_update_expectation_suite(ctx, suite_name) ==
    LET fresh == [name |-> suite_name, expectations |-> <<>>]
        hits == {i \in 1..Len(ctx.suites) : ctx.suites[i].name = suite_name}
    IN
    IF hits = {} THEN [ctx EXCEPT !.suites = Append(@, fresh)]
    ELSE [ctx EXCEPT !.suites[Min(hits)] = fresh]

\* suite.add_expectation(e): an equal expectation is replaced, not doubled
add_expectation(expectations, e) ==
    IF \E i \in 1..Len(expectations) : expectations[i] = e
    THEN expectations
    ELSE Append(expectations, e)

RECURSIVE add_expectations(_, _)
add_expectations(expectations, configs) ==
    IF configs = <<>> THEN expectations
    ELSE add_expectations(add_expectation(expectations, Head(configs)),
                          Tail(configs))

\* context.update_expectation_suite(suite)
update_expectation_suite(ctx, suite) ==
    [ctx EXCEPT !.suites =
        [i \in 1..Len(@) |-> IF @[i].name = suite.name THEN suite ELSE @[i]]]

build_suite(ctx, suite_config) ==
    LET suite_name == suite_config.name
        added == add_or_update_expectation_suite(ctx, suite_name)
        suite == [name |-> suite_name,
                  expectations |->
                      add_expectations(<<>>, suite_config.expectations)]
    IN [suite_name |-> suite_name,
        context |-> update_expectation_suite(added, suite)]

validations_overwrite(vals, batch_request, suite_name) ==
    << [batch_request |-> batch_request,
        expectation_suite_name |-> suite_name] >>

\* validations.append({...})
validations_append(vals, batch_request, suite_name) ==
    Append(vals, [batch_request |-> batch_request,
                  expectation_suite_name |-> suite_name])

\* st is the state of build_validations: the exception raised so far, the
\* validations, and the two catalogs
validated(st, a, batch_request, b) ==
    [exc |-> "none",
     validations |->
         validations_append(st.validations, batch_request, b.suite_name),
     data_source |-> a.data_source,
     context |-> b.context]

\* body of the innermost loop, lines 124-137, given the asset handle
validate(st, run, a) ==
    IF a.exc # "none" THEN [st EXCEPT !.exc = a.exc]
    ELSE validated(st, a, build_batch_request(a.val),
                   build_suite(st.context, run.suite))

\* the three nested loops of build_validations
RECURSIVE for_data_assets(_, _, _)
for_data_assets(st, run, data_assets) ==
    IF data_assets = <<>> \/ st.exc # "none" THEN st
    ELSE for_data_assets(
             validate(st, run, data_asset(st.data_source, Head(data_assets))),
             run, Tail(data_assets))

RECURSIVE for_runs(_, _)
for_runs(st, runs) ==
    IF runs = <<>> \/ st.exc # "none" THEN st
    ELSE for_runs(for_data_assets(st, Head(runs), Head(runs).data_assets),
                  Tail(runs))

RECURSIVE for_jobs(_, _)
for_jobs(st, job_list) ==
    IF job_list = <<>> \/ st.exc # "none" THEN st
    ELSE for_jobs(for_runs(st, Head(job_list).runs), Tail(job_list))

build_validations(ctx, ds, selected) ==
    LET job_list == IF selected.type = "Job" THEN <<selected.v>> ELSE selected.v
    IN for_jobs([exc |-> "none", validations |-> <<>>,
                 data_source |-> ds, context |-> ctx],
                job_list)

\* context.add_or_update_checkpoint(name=job_name, validations=...)
add_or_update_checkpoint(ctx, name, vals) ==
    LET checkpoint == [name |-> name, validations |-> vals]
        hits == {i \in 1..Len(ctx.checkpoints) : ctx.checkpoints[i].name = name}
    IN
    IF hits = {} THEN [ctx EXCEPT !.checkpoints = Append(@, checkpoint)]
    ELSE [ctx EXCEPT !.checkpoints[Min(hits)] = checkpoint]

given(arg) == ~IsNone(arg)

\* an argparse string argument is truthy when given and not empty
truthy(arg) == ~IsNone(arg) /\ Value(arg) # <<>>

never_fails(result) == FALSE

\* if not checkpoint_result.success
expectations_not_met(result) == ~result.success

\* ------------------------------------------------------------ the resources
Seqs(S, n) == UNION {[1..k -> S] : k \in 0..n}

Restrict(f, S) == [x \in S |-> f[x]]

Expectation(type) == [expectation_type |-> type, kwargs |-> "{}"]

\* resources/data_assets/w.yml; the entry "d" is listed twice
ProjectAssets ==
    <<"w">> :> << [name |-> <<"d">>, query |-> "q1"],
                  [name |-> <<"e">>, query |-> "q2"],
                  [name |-> <<"d">>, query |-> "q3"] >>

AssetEntries ==
    { [name |-> <<"d">>, query |-> "q1"],
      [name |-> <<"d">>, query |-> "q2"],
      [name |-> <<"e">>, query |-> "q1"] }

\* every content of resources/data_assets: no file, or w.yml with its entries
AssetFiles ==
    {<<>>} \cup {<<"w">> :> entries : entries \in Seqs(AssetEntries, MaxEntries)}

\* resources/suites: s3.yml holds a suite whose inner name is s1
ProjectSuites ==
    ("s1" :> [name |-> "s1",
              expectations |-> <<Expectation("e1"), Expectation("e2")>>])
    @@ ("s2" :> [name |-> "s2", expectations |-> <<Expectation("e1")>>])
    @@ ("s3" :> [name |-> "s1", expectations |-> <<Expectation("e3")>>])

JobData(name, tags, runs) == Some([name |-> name, tags |-> tags, runs |-> runs])
RunData(data_assets, suite) == [data_assets |-> data_assets, suite |-> suite]

wd == <<"w", ".", "d">>
we == <<"w", ".", "e">>
ww == <<"w", ".", "w">>

\* the job files a project may hold under resources/jobs
JobFiles ==
    (JobPath(<<"f">>, <<"a", ".yml">>) :>
        JobData("daily", Some(<< <<"x">>, <<"y">> >>),
                << RunData(<<wd, we>>, "s1"), RunData(<<wd>>, "s2") >>))
    @@ (JobPath(<<"a">>, <<"f", ".yml">>) :>
        JobData("recon", Some(<< <<"x">> >>), << RunData(<<we>>, "s3") >>))
    @@ (JobPath(<<"f">>, <<"f", ".yml">>) :>
        JobData("legacy", None, << RunData(<<wd>>, "s2") >>))
    @@ (JobPath(<<"a">>, <<"a", ".yml">>) :>
        JobData("broken", Some(<< <<"y">> >>), << RunData(<<we, ww>>, "s1") >>))
    @@ (JobPath(<<>>, <<"f", ".yml">>) :>
        JobData("nosuite", Some(<< <<"x">> >>), << RunData(<<wd>>, "s9") >>))
    @@ (JobPath(<<>>, <<"a", ".yml">>) :> None)
    @@ (JobPath(<<"f">>, <<"a", ".txt">>) :> None)

Resources(data_assets, job_paths) ==
    [data_assets |-> data_assets,
     suites |-> ProjectSuites,
     jobs |-> Restrict(JobFiles, job_paths)]

NameStrings == Strings({"f", "a", "."}, MaxNameLen)
AssetStrings == Strings({"w", "d", "e", "."}, MaxNameLen)
TagStrings == Strings({"x", "y", "-"}, MaxTagStrLen)
TagLists == Seqs({<<"x">>, <<"y">>, <<>>}, MaxTags)
SuiteNames == {"s1", "s2", "s3", "s9"}

\* --------------------------------------- the selection functions, called alone
NoCall == [op |-> "none"]
NoCatalog == [assets |-> <<>>]
NoContext == [suites |-> <<>>, checkpoints |-> <<>>]

InitSel ==
    /\ resources \in
           {Resources(a, DOMAIN JobFiles) : a \in AssetFiles}
           \cup {Resources(ProjectAssets, S) : S \in SUBSET DOMAIN JobFiles}
    /\ call = NoCall
    /\ ret = Ok(None, <<>>)
    /\ args = [job_name |-> None, job_tags |-> None]
    /\ pc = "library"
    /\ err = "none"
    /\ jobs = None
    /\ validations = <<>>
    /\ data_source = NoCatalog
    /\ context = NoContext
    /\ checkpoint_result = None
    /\ invocation = 0
    /\ started = [data_source |-> NoCatalog, context |-> NoContext]
    /\ history = <<>>

CallSelectAsset ==
    /\ call = NoCall
    /\ \E fname \in AssetStrings :
           /\ call' = [op |-> "select_asset", arg |-> fname]
           /\ ret' = select_asset(fname)
    /\ UNCHANGED <<resources, args, pc, err, jobs, validations, data_source,
                   context, checkpoint_result, invocation, started, history>>

CallSelectSuite ==
    /\ call = NoCall
    /\ \E suite_name \in SuiteNames :
           /\ call' = [op |-> "select_suite", arg |-> suite_name]
           /\ ret' = select_suite(suite_name)
    /\ UNCHANGED <<resources, args, pc, err, jobs, validations, data_source,
                   context, checkpoint_result, invocation, started, history>>

CallSelectJob ==
    /\ call = NoCall
    /\ \E walk \in os_walk :
           \/ \E fname \in NameStrings :
                  /\ call' = [op |-> "select_job", arg |-> PyStr(fname),
                              walk |-> walk]
                  /\ ret' = select_job(PyStr(fname), walk)
           \/ \E tags \in TagLists :
                  /\ call' = [op |-> "select_job", arg |-> PyList(tags),
                              walk |-> walk]
                  /\ ret' = select_job(PyList(tags), walk)
           \/ /\ call' = [op |-> "select_job", arg |-> PyInt(0), walk |-> walk]
              /\ ret' = select_job(PyInt(0), walk)
    /\ UNCHANGED <<resources, args, pc, err, jobs, validations, data_source,
                   context, checkpoint_result, invocation, started, history>>

NextSel == CallSelectAsset \/ CallSelectSuite \/ CallSelectJob

SpecSel == InitSel /\ [][NextSel]_vars

\* ------------------------------------------------------ the entry point, main.py
OptNames == {None} \cup {Some(n) : n \in NameStrings}
OptTags == {None} \cup {Some(t) : t \in TagStrings}

\* command lines: --job_name alone, --job_tags alone, neither, or both
Both(names, tags) ==
    {[job_name |-> n, job_tags |-> t] : n \in names, t \in tags}

CommandLines ==
    Both(OptNames, {None})
    \cup Both({None}, OptTags)
    \cup Both({Some(<<>>), Some(<<"f", ".", "a">>)}, {Some(<<>>), Some(<<"x">>)})

\* the command lines that name job files or tags of JobFiles, and some that
\* name none
ProjectCommandLines ==
    Both({None} \cup {Some(n) : n \in {<<>>, <<"f", "a">>, <<"f", ".", "a">>,
                                      <<"a", ".", "f">>, <<"f", ".", "f">>,
                                      <<"a", ".", "a">>, <<".", "a">>,
                                      <<".", "f">>, <<"f", ".">>}},
         {None})
    \cup Both({None},
              {Some(t) : t \in {<<>>, <<"x">>, <<"y">>, <<"x", "-", "y">>,
                                <<"y", "-", "x">>, <<"x", "-">>, <<"-">>}})
    \cup Both({Some(<<>>), Some(<<"f", ".", "a">>)}, {Some(<<>>), Some(<<"x">>)})

\* the data source as a run may find it: empty, or holding w.d already,
\* with the query of the asset file or with another one
Catalogs ==
    { NoCatalog,
      [assets |-> << [name |-> wd, query |-> "q1"] >>],
      [assets |-> << [name |-> wd, query |-> "q0"] >>] }

Init ==
    /\ \/ /\ resources = Resources(ProjectAssets, DOMAIN JobFiles)
          /\ args \in CommandLines
       \/ /\ resources \in {Resources(ProjectAssets, S) :
                                S \in SUBSET DOMAIN JobFiles}
          /\ args \in ProjectCommandLines
    /\ data_source \in Catalogs
    /\ context = NoContext
    /\ pc = "start"
    /\ err = "none"
    /\ jobs = None
    /\ validations = <<>>
    /\ checkpoint_result = None
    /\ invocation = 1
    /\ started = [data_source |-> data_source, context |-> context]
    /\ history = <<>>
    /\ call = NoCall
    /\ ret = Ok(None, <<>>)

\* lines 213-214, 219-221, 226-227: the selector is chosen and the jobs resolved
Selected(r) ==
    /\ ret' = r
    /\ IF r.exc # "none"
       THEN /\ pc' = "raised"
            /\ err' = r.exc
            /\ jobs' = jobs
       ELSE /\ pc' = "selected"
            /\ err' = err
            /\ jobs' = Some(r.val)

SelectJob ==
    /\ pc = "start"
    /\ IF truthy(args.job_name)
       THEN /\ call' = [op |-> "select_job", arg |-> PyStr(Value(args.job_name))]
            /\ Selected(select_job(PyStr(Value(args.job_name)), <<>>))
       ELSE IF truthy(args.job_tags)
       THEN LET tags_list == split(Value(args.job_tags), "-") IN
            \E walk \in os_walk :
                /\ call' = [op |-> "select_job", arg |-> PyList(tags_list)]
                /\ Selected(select_job(PyList(tags_list), walk))
       ELSE /\ pc' = "raised"
            /\ err' = "Exception: No job name or tags provided"
            /\ UNCHANGED <<jobs, call, ret>>
    /\ UNCHANGED <<resources, args, validations, data_source, context,
                   checkpoint_result, invocation, started, history>>

\* lines 215, 222
Built(b) ==
    /\ data_source' = b.data_source
    /\ context' = b.context
    /\ validations' = b.validations
    /\ IF b.exc # "none"
       THEN pc' = "raised" /\ err' = b.exc
       ELSE pc' = "built" /\ err' = err

BuildValidations ==
    /\ pc = "selected"
    /\ Built(build_validations(context, data_source, Value(jobs)))
    /\ UNCHANGED <<resources, args, jobs, checkpoint_result, invocation,
                   started, history, call, ret>>

\* lines 216-218, 223-225: the checkpoint is stored under the selector's text
\* and run; the runtime reports success or not
RunCheckpoint ==
    /\ pc = "built"
    /\ LET name == IF truthy(args.job_name) THEN args.job_name ELSE args.job_tags
       IN context' = add_or_update_checkpoint(context, name, validations)
    /\ \E success \in BOOLEAN :
           checkpoint_result' = Some([success |-> success])
    /\ pc' = "ran"
    /\ UNCHANGED <<resources, args, err, jobs, validations, data_source,
                   invocation, started, history, call, ret>>

\* lines 228-230
CheckResult ==
    /\ pc = "ran"
    /\ IF expectations_not_met(Value(checkpoint_result))
       THEN pc' = "raised" /\ err' = "Exception: Expectations are not met"
       ELSE pc' = "done" /\ err' = err
    /\ UNCHANGED <<resources, args, jobs, validations, data_source, context,
                   checkpoint_result, invocation, started, history, call, ret>>

\* the process has ended; the same command line is run again, against the
\* catalog the earlier invocations left (the runtime keeps assets, suites and
\* checkpoints between processes)
Rerun ==
    /\ pc \in {"done", "raised"}
    /\ invocation < MaxInvocations
    /\ history' = Append(history,
                         [pc |-> pc, err |-> err, validations |-> validations,
                          started |-> started])
    /\ invocation' = invocation + 1
    /\ started' = [data_source |-> data_source, context |-> context]
    /\ pc' = "start"
    /\ err' = "none"
    /\ jobs' = None
    /\ validations' = <<>>
    /\ checkpoint_result' = None
    /\ call' = NoCall
    /\ ret' = Ok(None, <<>>)
    /\ UNCHANGED <<resources, args, data_source, context>>

Next ==
    \/ SelectJob
    \/ BuildValidations
    \/ RunCheckpoint
    \/ CheckResult
    \/ Rerun

Spec == Init /\ [][Next]_vars

\* ------------------------------------------------ claims on the selection functions
Dots(s) == Cardinality({i \in 1..Len(s) : s[i] = "."})

YmlJobs == {p \in DOMAIN resources.jobs : p[Len(p)] = ".yml"}

Resolves(p) == handle_job_data(resources.jobs[p]).exc = "none"

JobOf(p) == handle_job_data(resources.jobs[p]).val

HasTags(p) ==
    /\ ~IsNone(resources.jobs[p])
    /\ ~IsNone(Value(resources.jobs[p]).tags)

TagSet(p) ==
    IF HasTags(p)
    THEN LET t == Value(Value(resources.jobs[p]).tags) IN {t[i] : i \in 1..Len(t)}
    ELSE {}

ByTags == call.op = "select_job" /\ call.arg.type = "list"

Returned == {ret.val.v[i] : i \in 1..Len(ret.val.v)}

\* C1: for job files that are tagged or have no tags field, and a non-empty
\* list of requested tags, _select_jobs_by_tags returns exactly the jobs whose
\* tag set holds every requested tag, and raises the no-match error when no
\* job qualifies.
C1_TagSelectionIsConjunction ==
    (/\ ByTags
     /\ call.arg.v # <<>>
     /\ \A p \in YmlJobs : Resolves(p))
    => LET tags == {call.arg.v[i] : i \in 1..Len(call.arg.v)}
           matching == {p \in YmlJobs : tags \subseteq TagSet(p)}
       IN
       IF matching = {}
       THEN ret.exc = "ValueError: No job found for tags"
       ELSE /\ ret.exc = "none"
            /\ Returned = {JobOf(p) : p \in matching}
            /\ Len(ret.val.v) = Cardinality(matching)

\* the same statement for projects whose job files all carry a tags field
C1_TagSelectionOfTaggedJobs ==
    (\A p \in YmlJobs : HasTags(p)) => C1_TagSelectionIsConjunction

\* C7: for a composite name g.l such that data_assets/g.yml lists an entry
\* named l, select_asset returns a DataAsset named by the whole composite name
\* with the query of the first entry named l; when g.yml lists no entry named
\* l it raises the asset-not-found error.
C7_SelectAssetKeepsCompositeName ==
    call.op = "select_asset" =>
        \A g \in DOMAIN resources.data_assets :
            LET entries == resources.data_assets[g] IN
            \A l \in Strings({"w", "d", "e"}, MaxNameLen) :
                call.arg = g \o <<".">> \o l =>
                    LET named == {i \in 1..Len(entries) : entries[i].name = l} IN
                    IF named = {}
                    THEN ret.exc = "Exception: Asset is not found"
                    ELSE /\ ret.exc = "none"
                         /\ ret.val.name = call.arg
                         /\ \E k \in named :
                                /\ \A j \in named : k <= j
                                /\ ret.val.query = entries[k].query

C7_Witness ==
    /\ call.op = "select_asset"
    /\ ret.exc = "none"
    /\ \E g \in DOMAIN resources.data_assets :
           LET entries == resources.data_assets[g] IN
           \E i, j \in 1..Len(entries) :
               /\ i < j
               /\ entries[i].name = entries[j].name
               /\ entries[i].query # entries[j].query
               /\ call.arg = g \o <<".">> \o entries[i].name

\* C8: a name that does not split into exactly two dot-separated components
\* is rejected with an error by select_asset and by selection by filename,
\* before any file is opened.
C8_MalformedNameRejectedBeforeOpen ==
    /\ (call.op = "select_asset" /\ Dots(call.arg) # 1)
           => (ret.exc # "none" /\ Len(ret.opened) = 0)
    /\ (call.op = "select_job" /\ call.arg.type = "str" /\ Dots(call.arg.v) # 1)
           => (ret.exc # "none" /\ Len(ret.opened) = 0)

C8_Witness ==
    /\ call.op = "select_asset"
    /\ Dots(call.arg) = 2
    /\ call.arg[2] = "."
    /\ <<call.arg[1]>> \in DOMAIN resources.data_assets
    /\ ret.exc = "ValueError: values to unpack"

\* C9: with an empty list of requested tags, tag selection matches every job
\* that has tags, and raises the no-match error only if there is no such job.
C9_EmptyTagsMatchEveryTaggedJob ==
    (ByTags /\ call.arg.v = <<>>) =>
        LET tagged == {p \in YmlJobs : HasTags(p)} IN
        /\ ret.exc = "ValueError: No job found for tags" => tagged = {}
        /\ ret.exc = "none" => {JobOf(p) : p \in tagged} \subseteq Returned
        /\ (tagged # {} /\ \A p \in YmlJobs : Resolves(p)) => ret.exc = "none"

C9_Witness ==
    /\ ByTags
    /\ call.arg.v = <<>>
    /\ ret.exc = "none"
    /\ \E p \in YmlJobs : HasTags(p)
    /\ \E p \in YmlJobs : ~HasTags(p)

\* ------------------------------------------------------ claims on the entry point
Supplied(arg) == arg # None /\ arg # Some(<<>>)

\* build_validations has returned in this invocation
Assembled ==
    \/ pc \in {"built", "ran", "done"}
    \/ err = "Exception: Expectations are not met"

JobList == IF Value(jobs).type = "Job" THEN <<Value(jobs).v>> ELSE Value(jobs).v

\* the (job, run, data asset) positions of the selected jobs
Triples ==
    UNION {UNION {{<<j, r, a>> :
                      a \in 1..Len(JobList[j].runs[r].data_assets)} :
                  r \in 1..Len(JobList[j].runs)} :
           j \in 1..Len(JobList)}

Before(u, t) ==
    \/ u[1] < t[1]
    \/ u[1] = t[1] /\ u[2] < t[2]
    \/ u[1] = t[1] /\ u[2] = t[2] /\ u[3] < t[3]

Rank(t) == Cardinality({u \in Triples : Before(u, t)}) + 1

\* C2: build_validations returns one descriptor per (job, run, data asset),
\* in job, then run, then data asset order; the descriptor names the suite of
\* the run holding the asset; a single Job counts as the list holding it.
C2_OneValidationPerTripleInOrder ==
    Assembled =>
        /\ Len(validations) = Cardinality(Triples)
        /\ \A t \in Triples :
               LET run == JobList[t[1]].runs[t[2]] IN
               /\ validations[Rank(t)].expectation_suite_name = run.suite.name
               /\ validations[Rank(t)].batch_request.data_asset_name
                      = run.data_assets[t[3]].name

C2_Witness ==
    /\ Assembled
    /\ Value(jobs).type = "list"
    /\ Len(JobList) = 2
    /\ Len(validations) = 4
    /\ validations[1].expectation_suite_name
           # validations[3].expectation_suite_name

NoTwoOfAName(list) ==
    \A i, j \in 1..Len(list) : list[i].name = list[j].name => i = j

\* C3: build_validations may be repeated: run again with the same jobs, the
\* second run raises nothing at asset creation and returns as many
\* descriptors as the first; the data source never holds two assets of a name
\* nor the runtime two suites of a name.
C3_BuildValidationsIsIdempotent ==
    /\ err # "ValueError: asset already exists"
    /\ NoTwoOfAName(data_source.assets)
    /\ NoTwoOfAName(context.suites)
    /\ \A i \in 1..Len(history) :
           /\ history[i].err # "ValueError: asset already exists"
           /\ (/\ Assembled
               /\ history[i].pc = "done"
                  \/ history[i].err = "Exception: Expectations are not met")
              => Len(validations) = Len(history[i].validations)

C3_Witness ==
    /\ invocation = 2
    /\ Assembled
    /\ history[1].started.data_source = NoCatalog
    /\ Len(history[1].validations) = 3
    /\ Len(validations) = 3
    /\ Len(data_source.assets) = 2

\* the job files the selection reads: the named file, or every .yml file;
\* no directory or file name of JobFiles holds a dot
BaseOf(path) ==
    LET at == {i \in 1..Len(path) : path[i] = "/"} IN
    SubSeq(path, IF at = {} THEN 2 ELSE Min(at) + 1, Len(path) - 1)

NamedJobs ==
    {p \in YmlJobs :
        Value(args.job_name) = DirOf(p) \o <<".">> \o BaseOf(p)}

Visited ==
    IF Supplied(args.job_name) THEN NamedJobs
    ELSE IF Supplied(args.job_tags) THEN YmlJobs
    ELSE {}

FailsToResolve(p) ==
    \/ IsNone(resources.jobs[p])
    \/ \E r \in 1..Len(Value(resources.jobs[p]).runs) :
           LET run == Value(resources.jobs[p]).runs[r] IN
           \/ \E a \in 1..Len(run.data_assets) :
                  select_asset(run.data_assets[a]).exc # "none"
           \/ select_suite(run.suite).exc # "none"

Untouched ==
    /\ validations = <<>>
    /\ checkpoint_result = None
    /\ data_source = started.data_source
    /\ context = started.context

\* C4: no partial success: when a job file the selection reads fails to
\* resolve, the invocation aborts with no descriptor assembled, no checkpoint
\* run and nothing registered; nothing is registered before every job is
\* resolved.
C4_NoPartialSuccess ==
    /\ (\E p \in Visited : FailsToResolve(p))
           => (pc \in {"start", "raised"} /\ jobs = None /\ Untouched)
    /\ ~Untouched
           => (jobs # None /\ ret.exc = "none"
               /\ \A p \in Visited : ~FailsToResolve(p))

C4_Witness ==
    /\ pc = "raised"
    /\ Supplied(args.job_tags)
    /\ ~Supplied(args.job_name)
    /\ \E p \in Visited : FailsToResolve(p)
    /\ \E p \in Visited : ~FailsToResolve(p) /\ HasTags(p)
    /\ invocation = 2
    /\ Untouched

C5_ExitState ==
    /\ pc = "raised" <=> err # "none"
    /\ pc = "done"
           => /\ Supplied(args.job_name) \/ Supplied(args.job_tags)
              /\ jobs # None
              /\ ret.exc = "none"
              /\ checkpoint_result # None
              /\ Value(checkpoint_result).success
    /\ ret.exc # "none" => (pc = "raised" /\ err = ret.exc)
    /\ (~Supplied(args.job_name) /\ ~Supplied(args.job_tags))
           => pc \in {"start", "raised"}
    /\ (checkpoint_result # None /\ ~Value(checkpoint_result).success)
           => pc \in {"ran", "raised"}
    /\ \A i \in 1..Len(history) :
           history[i].pc = "done" <=> history[i].err = "none"

C6_ExactlyOneSelector ==
    /\ call.op = "select_job"
           => Supplied(args.job_name) # Supplied(args.job_tags)
    /\ (~Supplied(args.job_name) /\ ~Supplied(args.job_tags) /\ pc # "start")
           => /\ err = "Exception: No job name or tags provided"
              /\ call = NoCall
              /\ checkpoint_result = None

\* C6 as amended: resolution is reached exactly when at least one of job_name
\* and job_tags is supplied and not empty; job_name is used when both are;
\* with neither, the run fails on the missing selector without resolving a
\* job or running a checkpoint.
C6_AtLeastOneSelector ==
    /\ (pc # "start" /\ (Supplied(args.job_name) \/ Supplied(args.job_tags)))
           => call.op = "select_job"
    /\ call.op = "select_job"
           => IF Supplied(args.job_name)
              THEN /\ call.arg.type = "str"
                   /\ call.arg.v = Value(args.job_name)
              ELSE /\ Supplied(args.job_tags)
                   /\ call.arg.type = "list"
    /\ (~Supplied(args.job_name) /\ ~Supplied(args.job_tags) /\ pc # "start")
           => /\ pc = "raised"
              /\ err = "Exception: No job name or tags provided"
              /\ call = NoCall
              /\ jobs = None
              /\ Untouched

C6_Witness ==
    /\ Supplied(args.job_name)
    /\ Supplied(args.job_tags)
    /\ pc = "selected"
    /\ call.arg.type = "str"

\* C10: an asset the data source already holds under the name of a job's data
\* asset is left as it is and its handle, with the stored query, serves the
\* batch request; an asset is added only under a name the data source did not
\* hold.
C10_ExistingAssetIsKept ==
    LET old == started.data_source.assets
        now == data_source.assets
    IN
    /\ Len(now) >= Len(old)
    /\ SubSeq(now, 1, Len(old)) = old
    /\ \A i \in (Len(old) + 1)..Len(now) :
           \A j \in 1..Len(now) : now[j].name = now[i].name => j = i
    /\ \A k \in 1..Len(validations) :
           \A i \in 1..Len(old) :
               validations[k].batch_request.data_asset_name = old[i].name
                   => validations[k].batch_request.query = old[i].query

C10_Witness ==
    /\ Assembled
    /\ started.data_source.assets = << [name |-> wd, query |-> "q0"] >>
    /\ \E k \in 1..Len(validations) :
           /\ validations[k].batch_request.data_asset_name = wd
           /\ validations[k].batch_request.query = "q0"
    /\ \E j \in 1..Len(JobList) :
           \E r \in 1..Len(JobList[j].runs) :
               \E a \in 1..Len(JobList[j].runs[r].data_assets) :
                   /\ JobList[j].runs[r].data_assets[a].name = wd
                   /\ JobList[j].runs[r].data_assets[a].query = "q1"
    /\ Len(data_source.assets) = 2

====
